---- MODULE Spec2Model ----
(***************************************************************************)
(* Model of ActionsSdkAssistant (src/actions-sdk-assistant.js): the        *)
(* conversation protocol adapter that reads one inbound request body and   *)
(* answers it with an "ask" or a "tell" response.                          *)
(*                                                                         *)
(* JavaScript values are tagged records; every method of the class is an   *)
(* operator from the instance (self) and its arguments to an outcome       *)
(* [self, ret, thrown]; every action of the state machine applies one      *)
(* method to the instance held in the variable adapter.                    *)
(***************************************************************************)
EXTENDS Integers, Sequences, FiniteSets, TLC

VARIABLES
    pc,       \* "Initializing" (request received, constructor not run yet),
              \* "AwaitingCallback" (constructed), "Responded" (a response was
              \* handed to the transport), "Crashed" (a method threw)
    adapter,  \* the ActionsSdkAssistant instance and its two collaborators' logs
    ret,      \* what the last operation returned
    thrown,   \* whether the last operation raised an exception
    lastOp,   \* the last operation and its arguments
    encoded,  \* the state and data in memory when this turn's ask encoded them into
              \* the token it sent (<<>> when no ask did)
    carried,  \* the previous turn's encoded, when this turn's request carries that
              \* turn's token
    turns,    \* concurrent turns: for each turn its instance, position and the
              \* steps it has taken (<<>> when one turn is handled at a time)
    heap      \* concurrent turns: the objects that the instances' data fields
              \* refer to, by address

vars == <<pc, adapter, ret, thrown, lastOp, encoded, carried, turns, heap>>

----------------------------------------------------------------------------
(* Bounds and program constants *)

MaxNoInputs == 4

RESPONSE_CODE_OK == 200
INPUTS_MAX == 3

----------------------------------------------------------------------------
(* JavaScript values *)

Undefined == [t |-> "undefined"]
Null == [t |-> "null"]
Bool(b) == [t |-> "boolean", b |-> b]
Num(n) == [t |-> "number", n |-> n]
Str(s) == [t |-> "string", s |-> s]
\* a string whose content is JSON text, kept as its sequence of lexemes
JsonText(toks) == [t |-> "jsontext", toks |-> toks]
\* an object: its own properties in insertion order, as <<key, value>> pairs
Obj(props) == [t |-> "object", props |-> props]
Arr(elems) == [t |-> "array", elems |-> elems]
Fn == [t |-> "function"]
\* an instance of the State class of ./assistant, with its name
StateObj(name) == [t |-> "State", name |-> name]

\* JavaScript truthiness: undefined, null, false, 0 and "" are falsy
Truthy(v) ==
    CASE v.t = "undefined" -> FALSE
      [] v.t = "null" -> FALSE
      [] v.t = "boolean" -> v.b
      [] v.t = "number" -> v.n # 0
      [] v.t = "string" -> v.s # ""
      [] v.t = "jsontext" -> v.toks # <<>>
      [] OTHER -> TRUE

\* typeof v
TypeOf(v) ==
    CASE v.t = "undefined" -> "undefined"
      [] v.t = "boolean" -> "boolean"
      [] v.t = "number" -> "number"
      [] v.t \in {"string", "jsontext"} -> "string"
      [] v.t = "function" -> "function"
      [] OTHER -> "object"

\* whether reading a property of v raises a TypeError
Nullish(v) == v.t \in {"undefined", "null"}

HasProp(v, key) ==
    /\ v.t = "object"
    /\ \E i \in 1..Len(v.props) : v.props[i][1] = key

\* v.key for a non-nullish v: the own property, else undefined
Get(v, key) ==
    IF HasProp(v, key)
    THEN v.props[CHOOSE i \in 1..Len(v.props) : v.props[i][1] = key][2]
    ELSE Undefined

\* obj.key = val on an object
SetProp(obj, key, val) ==
    IF HasProp(obj, key)
    THEN Obj([i \in 1..Len(obj.props) |->
                IF obj.props[i][1] = key THEN <<key, val>> ELSE obj.props[i]])
    ELSE Obj(Append(obj.props, <<key, val>>))

\* v.length and v[i] (0-based) of an array
Length(v) == Len(v.elems)
At(v, i) == IF i + 1 \in 1..Len(v.elems) THEN v.elems[i + 1] ELSE Undefined

----------------------------------------------------------------------------
(* JSON.stringify and JSON.parse over sequences of lexemes *)

P(c) == <<"punct", c>>
S(s) == <<"string", s>>
L(l) == <<"literal", l>>

\* a value JSON.stringify leaves out of an object and writes as null in an array
Unserializable(v) == v.t \in {"undefined", "function"}

RECURSIVE Serialize(_)
RECURSIVE SerializeProps(_, _)
RECURSIVE SerializeElems(_, _)

\* the members of an object, properties with unserializable values skipped
SerializeProps(props, first) ==
    IF props = <<>> THEN <<>>
    ELSE IF Unserializable(Head(props)[2]) THEN SerializeProps(Tail(props), first)
    ELSE (IF first THEN <<>> ELSE <<P(",")>>)
         \o <<S(Head(props)[1]), P(":")>>
         \o Serialize(Head(props)[2])
         \o SerializeProps(Tail(props), FALSE)

SerializeElems(elems, first) ==
    IF elems = <<>> THEN <<>>
    ELSE (IF first THEN <<>> ELSE <<P(",")>>)
         \o (IF Unserializable(Head(elems)) THEN <<L("null")>> ELSE Serialize(Head(elems)))
         \o SerializeElems(Tail(elems), FALSE)

Serialize(v) ==
    CASE v.t = "null" -> <<L("null")>>
      [] v.t = "boolean" -> <<L(IF v.b THEN "true" ELSE "false")>>
      [] v.t = "number" -> <<<<"number", ToString(v.n)>>>>
      [] v.t = "string" -> <<S(v.s)>>
      [] v.t = "object" -> <<P("{")>> \o SerializeProps(v.props, TRUE) \o <<P("}")>>
      [] v.t = "array" -> <<P("[")>> \o SerializeElems(v.elems, TRUE) \o <<P("]")>>
      [] v.t = "State" -> <<P("{")>> \o <<S("name_"), P(":"), S(v.name)>> \o <<P("}")>>
      [] OTHER -> <<>>

\* JSON.stringify(v): a string, or undefined for undefined and functions
JSON_stringify(v) == IF Unserializable(v) THEN Undefined ELSE JsonText(Serialize(v))

ParseFail == [ok |-> FALSE, val |-> Undefined, next |-> 0]

RECURSIVE ParseValue(_, _)
RECURSIVE ParseMember(_, _, _)
RECURSIVE ParseElem(_, _, _)

\* one "key": value member at position i, then "," and another member, or "}"
ParseMember(toks, i, acc) ==
    IF i + 2 > Len(toks) \/ toks[i][1] # "string" \/ toks[i + 1] # P(":") THEN ParseFail
    ELSE LET v == ParseValue(toks, i + 2)
             obj == SetProp(acc, toks[i][2], v.val)
         IN  IF ~v.ok \/ v.next > Len(toks) THEN ParseFail
             ELSE IF toks[v.next] = P("}") THEN [ok |-> TRUE, val |-> obj, next |-> v.next + 1]
             ELSE IF toks[v.next] = P(",") THEN ParseMember(toks, v.next + 1, obj)
             ELSE ParseFail

ParseElem(toks, i, acc) ==
    LET v == ParseValue(toks, i)
        arr == Arr(Append(acc.elems, v.val))
    IN  IF ~v.ok \/ v.next > Len(toks) THEN ParseFail
        ELSE IF toks[v.next] = P("]") THEN [ok |-> TRUE, val |-> arr, next |-> v.next + 1]
        ELSE IF toks[v.next] = P(",") THEN ParseElem(toks, v.next + 1, arr)
        ELSE ParseFail

ParseValue(toks, i) ==
    IF i > Len(toks) THEN ParseFail
    ELSE LET tk == toks[i] IN
         CASE tk[1] = "string" -> [ok |-> TRUE, val |-> Str(tk[2]), next |-> i + 1]
           [] tk = L("null") -> [ok |-> TRUE, val |-> Null, next |-> i + 1]
           [] tk = L("true") -> [ok |-> TRUE, val |-> Bool(TRUE), next |-> i + 1]
           [] tk = L("false") -> [ok |-> TRUE, val |-> Bool(FALSE), next |-> i + 1]
           [] tk[1] = "number" ->
                [ok |-> TRUE, val |-> Num(CHOOSE n \in 0..9 : ToString(n) = tk[2]),
                 next |-> i + 1]
           [] tk = P("{") ->
                IF i + 1 <= Len(toks) /\ toks[i + 1] = P("}")
                THEN [ok |-> TRUE, val |-> Obj(<<>>), next |-> i + 2]
                ELSE ParseMember(toks, i + 1, Obj(<<>>))
           [] tk = P("[") ->
                IF i + 1 <= Len(toks) /\ toks[i + 1] = P("]")
                THEN [ok |-> TRUE, val |-> Arr(<<>>), next |-> i + 2]
                ELSE ParseElem(toks, i + 1, Arr(<<>>))
           [] OTHER -> ParseFail

\* JSON.parse(text): [ok, val]; ok is FALSE where JSON.parse throws a SyntaxError.
\* A plain string of the model (Str) holds no JSON text.
JSON_parse(text) ==
    IF text.t # "jsontext" THEN [ok |-> FALSE, val |-> Undefined]
    ELSE LET r == ParseValue(text.toks, 1)
         IN  IF r.ok /\ r.next = Len(text.toks) + 1
             THEN [ok |-> TRUE, val |-> r.val]
             ELSE [ok |-> FALSE, val |-> Undefined]

----------------------------------------------------------------------------
(* The instance and the base class Assistant (./assistant, not in src/)     *)

\* outcome of a method: the instance afterwards, the value returned, and
\* whether an exception was raised instead of returning
Ok(self, r) == [self |-> self, ret |-> r, thrown |-> FALSE]
Thrown(self) == [self |-> self, ret |-> Undefined, thrown |-> TRUE]

\* the instance as the base constructor leaves it: the parsed request body, the
\* options, the resolved dialect, state unset, data empty, nothing sent;
\* errors is the error sink's log of the operation in progress, sent the
\* transport's log, sessionStartedCalls the number of calls of the callback
NewInstance(body, sessionStarted, notV1) ==
    [body_ |-> body, sessionStarted_ |-> sessionStarted, notApiVersionOne |-> notV1,
     state |-> Undefined, data |-> Obj(<<>>), responded_ |-> FALSE,
     sent |-> <<>>, errors |-> <<>>, sessionStartedCalls |-> 0]

\* the error sink: reports the error, changes nothing else
handleError_(self, text) == [self EXCEPT !.errors = Append(@, text)]

\* hands the response to the transport with the status code, once per instance
doResponse_(self, response, responseCode) ==
    IF self.responded_ THEN Ok(self, Undefined)
    ELSE Ok([self EXCEPT !.sent = Append(@, [code |-> responseCode, body |-> response]),
                         !.responded_ = TRUE],
            response)

\* the texts of the model that contain markup delimiters
MarkupTexts == {"<speak>Say a number</speak>"}

\* SSML auto-detection
isSsml_(self, text) == Bool(text.t = "string" /\ text.s \in MarkupTexts)

\* the version classifier
isNotApiVersionOne_(self) == self.notApiVersionOne

\* ConversationStages.NEW in the instance's dialect
ConversationStagesNEW(self) == IF isNotApiVersionOne_(self) THEN Str("NEW") ELSE Num(1)

StandardIntentsTEXT == Str("assistant.intent.action.TEXT")
StandardIntentsPERMISSION == Str("assistant.intent.action.PERMISSION")
ANY_TYPE_PROPERTY_ == "@type"
InputValueDataTypesPERMISSION == Str("type.googleapis.com/google.actions.v2.PermissionValueSpec")

\* this.state instanceof State ? this.state.getName() : this.state
StateName(state) == IF state.t = "State" THEN Str(state.name) ELSE state

\* each text of the list rendered as an SSML prompt / a plain-text prompt
buildPromptsFromSsmlHelper_(list) ==
    Arr([i \in 1..Len(list.elems) |-> Obj(<< <<"ssml", list.elems[i]>> >>)])
buildPromptsFromPlainTextHelper_(list) ==
    Arr([i \in 1..Len(list.elems) |-> Obj(<< <<"textToSpeech", list.elems[i]>> >>)])

\* ./utils/transform: the keys of an argument in the legacy casing
SnakeCaseKey(key) ==
    CASE key = "textValue" -> "text_value"
      [] key = "rawText" -> "raw_text"
      [] OTHER -> key
transformToSnakeCase(v) ==
    Obj([i \in 1..Len(v.props) |-> <<SnakeCaseKey(v.props[i][1]), v.props[i][2]>>])

----------------------------------------------------------------------------
(* ActionsSdkAssistant: constructor and request extractors *)

\* constructor, after super(options)
\* the constructor without the test that the conversation is new
Constructor_anyConversation(self) ==
    LET conversation == Get(self.body_, "conversation")
    IN  IF /\ Truthy(self.body_)
           /\ Truthy(conversation)
           /\ Truthy(self.sessionStarted_)
           /\ TypeOf(self.sessionStarted_) = "function"
        THEN Ok([self EXCEPT !.sessionStartedCalls = @ + 1], Undefined)
        ELSE IF Truthy(self.sessionStarted_) /\ TypeOf(self.sessionStarted_) # "function"
        THEN Ok(handleError_(self, "options.sessionStarted must be a Function"), Undefined)
        ELSE Ok(self, Undefined)

Constructor(self) ==
    LET conversation == Get(self.body_, "conversation")
        type == IF Truthy(conversation) THEN Get(conversation, "type") ELSE Undefined
    IN  IF /\ Truthy(self.body_)
           /\ Truthy(conversation)
           /\ Truthy(type)
           /\ type = ConversationStagesNEW(self)
           /\ Truthy(self.sessionStarted_)
           /\ TypeOf(self.sessionStarted_) = "function"
        THEN Ok([self EXCEPT !.sessionStartedCalls = @ + 1], Undefined)
        ELSE IF Truthy(self.sessionStarted_) /\ TypeOf(self.sessionStarted_) # "function"
        THEN Ok(handleError_(self, "options.sessionStarted must be a Function"), Undefined)
        ELSE Ok(self, Undefined)

getTopInput_(self) ==
    LET inputs == Get(self.body_, "inputs")
    IN  IF ~Truthy(inputs) \/ (inputs.t = "array" /\ Length(inputs) = 0)
        THEN Ok(handleError_(self, "Missing inputs from request body"), Null)
        ELSE Ok(self, At(inputs, 0))

getRawInput(self) ==
    LET top == getTopInput_(self)
        input == top.ret
        rawInputs == Get(input, "rawInputs")
        rawInput == At(rawInputs, 0)
    IN  IF ~Truthy(input)
        THEN Ok(handleError_(top.self, "Failed to get top Input."), Null)
        ELSE IF ~Truthy(rawInputs) \/ (rawInputs.t = "array" /\ Length(rawInputs) = 0)
        THEN Ok(handleError_(top.self, "Missing user raw input"), Null)
        ELSE IF Nullish(rawInput) THEN Thrown(top.self)
        ELSE IF ~Truthy(Get(rawInput, "query"))
        THEN Ok(handleError_(top.self, "Missing query for user raw input"), Null)
        ELSE Ok(top.self, Get(rawInput, "query"))

getDialogState(self) ==
    LET conversation == Get(self.body_, "conversation")
        token == Get(conversation, "conversationToken")
        json == JSON_parse(token)
    IN  IF Truthy(conversation) /\ Truthy(token)
        THEN (IF json.ok THEN Ok(self, json.val) ELSE Thrown(self))
        ELSE Ok(self, Obj(<<>>))

getUser(self) ==
    LET user == Get(self.body_, "user")
        profile == Get(user, "profile")
    IN  IF ~Truthy(user)
        THEN Ok(handleError_(self, "No user object"), Null)
        ELSE Ok(self, Obj(<<
                <<"userId", Get(user, "userId")>>,
                <<"user_id", Get(user, "userId")>>,
                <<"userName", IF Truthy(profile)
                              THEN Obj(<< <<"displayName", Get(profile, "displayName")>>,
                                          <<"givenName", Get(profile, "givenName")>>,
                                          <<"familyName", Get(profile, "familyName")>> >>)
                              ELSE Null>>,
                <<"profile", profile>>,
                <<"accessToken", Get(user, "accessToken")>>,
                <<"access_token", Get(user, "accessToken")>> >>))

getConversationId(self) ==
    LET conversation == Get(self.body_, "conversation")
    IN  IF ~Truthy(conversation) \/ ~Truthy(Get(conversation, "conversationId"))
        THEN Ok(handleError_(self, "No conversation ID"), Null)
        ELSE Ok(self, Get(conversation, "conversationId"))

getIntent(self) ==
    LET top == getTopInput_(self)
        input == top.ret
    IN  IF ~Truthy(input)
        THEN Ok(handleError_(top.self, "Missing intent from request body"), Null)
        ELSE Ok(top.self, Get(input, "intent"))

\* the lookup matching names without regard to letter case
FoldCase(v) == IF v = Str("City") THEN Str("city") ELSE v
FindArgument_ignoreCase(args, argName) ==
    IF \E i \in 1..Len(args.elems) : FoldCase(Get(args.elems[i], "name")) = FoldCase(argName)
    THEN args.elems[CHOOSE i \in 1..Len(args.elems) :
                       /\ FoldCase(Get(args.elems[i], "name")) = FoldCase(argName)
                       /\ \A j \in 1..(i - 1) :
                             FoldCase(Get(args.elems[j], "name")) # FoldCase(argName)]
    ELSE Null

\* the first argument of the list whose name is argName, else null
FindArgument(args, argName) ==
    IF \E i \in 1..Len(args.elems) : Get(args.elems[i], "name") = argName
    THEN args.elems[CHOOSE i \in 1..Len(args.elems) :
                       /\ Get(args.elems[i], "name") = argName
                       /\ \A j \in 1..(i - 1) : Get(args.elems[j], "name") # argName]
    ELSE Null

getArgument_(self, argName) ==
    LET top == getTopInput_(self)
        input == top.ret
        \* the function's own arguments object, which the code tests
        arguments == Arr(<<argName>>)
        inputArguments == Get(input, "arguments")
    IN  IF ~Truthy(argName)
        THEN Ok(handleError_(self, "Invalid argument name"), Null)
        ELSE IF ~Truthy(input)
        THEN Ok(handleError_(top.self, "Missing action"), Null)
        ELSE IF ~Truthy(arguments) THEN Ok(top.self, Null)
        \* input.arguments.length of an absent list is a TypeError
        ELSE IF Nullish(inputArguments) THEN Thrown(top.self)
        ELSE Ok(top.self, FindArgument(inputArguments, argName))

getArgument(self, argName) ==
    LET found == getArgument_(self, argName)
        argument == found.ret
    IN  IF ~Truthy(argName)
        THEN Ok(handleError_(self, "Invalid argument name"), Null)
        ELSE IF found.thrown THEN found
        ELSE IF ~Truthy(argument) THEN Ok(found.self, Null)
        ELSE IF Truthy(Get(argument, "textValue"))
        THEN Ok(found.self, Get(argument, "textValue"))
        ELSE IF ~isNotApiVersionOne_(found.self)
        THEN Ok(found.self, transformToSnakeCase(argument))
        ELSE Ok(found.self, argument)

\* extractData_: the state and data of the inbound dialog-state token
extractData_(self) ==
    LET conversation == Get(self.body_, "conversation")
        token == Get(conversation, "conversationToken")
        json == JSON_parse(token)
    IN  IF Truthy(conversation) /\ Truthy(token)
        THEN (IF ~json.ok THEN Thrown(self)
              \* json.data of a null json is a TypeError
              ELSE IF Nullish(json.val) THEN Thrown(self)
              ELSE Ok([self EXCEPT !.data = Get(json.val, "data"),
                                   !.state = Get(json.val, "state")], Undefined))
        ELSE Ok([self EXCEPT !.data = Obj(<<>>)], Undefined)

----------------------------------------------------------------------------
(* ActionsSdkAssistant: response builders *)

\* maybeAddItemToArray_: array.push(item) unless the item is falsy
maybeAddItemToArray_(self, item, array) ==
    IF ~Truthy(array) THEN [self |-> handleError_(self, "Invalid array"), array |-> array]
    ELSE IF ~Truthy(item) THEN [self |-> self, array |-> array]
    ELSE [self |-> self, array |-> Arr(Append(array.elems, item))]

\* buildInputPrompt refusing a list of INPUTS_MAX texts already
buildInputPrompt_offByOne(self, isSsml, initialPrompt, noInputs) ==
    LET list == IF Truthy(noInputs) THEN noInputs ELSE Arr(<<>>)
        added == maybeAddItemToArray_(self, initialPrompt, Arr(<<>>))
        initials == added.array
    IN  IF Truthy(noInputs) /\ Length(noInputs) >= INPUTS_MAX
        THEN Ok(handleError_(self, "Invalid number of no inputs"), Null)
        ELSE IF Truthy(isSsml)
        THEN Ok(added.self,
                Obj(<< <<"initialPrompts", buildPromptsFromSsmlHelper_(initials)>>,
                       <<"noInputPrompts", buildPromptsFromSsmlHelper_(list)>> >>))
        ELSE Ok(added.self,
                Obj(<< <<"initialPrompts", buildPromptsFromPlainTextHelper_(initials)>>,
                       <<"noInputPrompts", buildPromptsFromPlainTextHelper_(list)>> >>))

buildInputPrompt(self, isSsml, initialPrompt, noInputs) ==
    LET list == IF Truthy(noInputs) THEN noInputs ELSE Arr(<<>>)
        added == maybeAddItemToArray_(self, initialPrompt, Arr(<<>>))
        initials == added.array
    IN  IF Truthy(noInputs) /\ Length(noInputs) > INPUTS_MAX
        THEN Ok(handleError_(self, "Invalid number of no inputs"), Null)
        ELSE IF Truthy(isSsml)
        THEN Ok(added.self,
                Obj(<< <<"initialPrompts", buildPromptsFromSsmlHelper_(initials)>>,
                       <<"noInputPrompts", buildPromptsFromSsmlHelper_(list)>> >>))
        ELSE Ok(added.self,
                Obj(<< <<"initialPrompts", buildPromptsFromPlainTextHelper_(initials)>>,
                       <<"noInputPrompts", buildPromptsFromPlainTextHelper_(list)>> >>))

buildResponseHelper_(conversationToken, expectUserResponse, expectedInput, finalResponse) ==
    LET r0 == Obj(<<>>)
        r1 == IF Truthy(conversationToken)
              THEN SetProp(r0, "conversationToken", conversationToken) ELSE r0
        r2 == SetProp(r1, "expectUserResponse", expectUserResponse)
        r3 == IF Truthy(expectedInput) THEN SetProp(r2, "expectedInputs", expectedInput) ELSE r2
    IN  IF ~Truthy(expectUserResponse) /\ Truthy(finalResponse)
        THEN SetProp(r3, "finalResponse", finalResponse)
        ELSE r3

buildExpectedIntent_(self, intent) ==
    IF ~Truthy(intent) \/ intent = Str("")
    THEN Ok(handleError_(self, "Invalid intent"), Null)
    ELSE Ok(self, Obj(<< <<"intent", intent>> >>))

\* the dialog state with the state object itself instead of its name
CurrentDialogState_rawState(self) ==
    Obj(<< <<"state", self.state>>, <<"data", self.data>> >>)

\* {state: <name of a State, else the state>, data: this.data}
CurrentDialogState(self) ==
    Obj(<< <<"state", StateName(self.state)>>, <<"data", self.data>> >>)

buildAskHelper_(self, inputPrompt, possibleIntents, dialogState) ==
    LET built == IF TypeOf(inputPrompt) = "string"
                 THEN buildInputPrompt(self, isSsml_(self, inputPrompt), inputPrompt, Undefined)
                 ELSE Ok(self, inputPrompt)
        state == IF ~Truthy(dialogState) THEN CurrentDialogState(built.self) ELSE dialogState
        expectedInputs == Arr(<<Obj(<< <<"inputPrompt", built.ret>>,
                                       <<"possibleIntents", possibleIntents>> >>)>>)
        response == buildResponseHelper_(JSON_stringify(state), Bool(TRUE),
                                         expectedInputs, Null)
    IN  IF ~Truthy(inputPrompt)
        THEN Ok(handleError_(self, "Invalid input prompt"), Null)
        ELSE doResponse_(built.self, response, RESPONSE_CODE_OK)

\* ask reporting an array dialogState without returning
ask_arrayNotRefused(self, inputPrompt, dialogState) ==
    LET built == IF TypeOf(inputPrompt) = "string"
                 THEN buildInputPrompt(self, isSsml_(self, inputPrompt), inputPrompt, Undefined)
                 ELSE Ok(self, inputPrompt)
        state == IF ~Truthy(dialogState) THEN CurrentDialogState(built.self) ELSE dialogState
        checked == IF Truthy(dialogState) /\ dialogState.t = "array"
                   THEN handleError_(built.self, "Invalid dialog state") ELSE built.self
        expectedIntent == buildExpectedIntent_(checked, StandardIntentsTEXT)
    IN  IF ~Truthy(inputPrompt)
        THEN Ok(handleError_(self, "Invalid input prompt"), Null)
        ELSE buildAskHelper_(expectedIntent.self, built.ret, Arr(<<expectedIntent.ret>>), state)

\* ask wrapping a raw string as plain text without SSML detection
ask_noDetection(self, inputPrompt, dialogState) ==
    LET built == IF TypeOf(inputPrompt) = "string"
                 THEN buildInputPrompt(self, Bool(FALSE), inputPrompt, Undefined)
                 ELSE Ok(self, inputPrompt)
        state == IF ~Truthy(dialogState) THEN CurrentDialogState(built.self) ELSE dialogState
        expectedIntent == buildExpectedIntent_(built.self, StandardIntentsTEXT)
    IN  IF ~Truthy(inputPrompt)
        THEN Ok(handleError_(self, "Invalid input prompt"), Null)
        ELSE IF Truthy(dialogState) /\ dialogState.t = "array"
        THEN Ok(handleError_(built.self, "Invalid dialog state"), Null)
        ELSE buildAskHelper_(expectedIntent.self, built.ret, Arr(<<expectedIntent.ret>>), state)

ask(self, inputPrompt, dialogState) ==
    LET built == IF TypeOf(inputPrompt) = "string"
                 THEN buildInputPrompt(self, isSsml_(self, inputPrompt), inputPrompt, Undefined)
                 ELSE Ok(self, inputPrompt)
        state == IF ~Truthy(dialogState) THEN CurrentDialogState(built.self) ELSE dialogState
        expectedIntent == buildExpectedIntent_(built.self, StandardIntentsTEXT)
    IN  IF ~Truthy(inputPrompt)
        THEN Ok(handleError_(self, "Invalid input prompt"), Null)
        ELSE IF Truthy(dialogState) /\ dialogState.t = "array"
        THEN Ok(handleError_(built.self, "Invalid dialog state"), Null)
        ELSE buildAskHelper_(expectedIntent.self, built.ret, Arr(<<expectedIntent.ret>>), state)

\* tell that encodes the dialog state into its response as ask does
tell_withToken(self, textToSpeech) ==
    LET speechResponse == IF Truthy(isSsml_(self, textToSpeech))
                          THEN Obj(<< <<"ssml", textToSpeech>> >>)
                          ELSE Obj(<< <<"textToSpeech", textToSpeech>> >>)
        finalResponse == Obj(<< <<"speechResponse", speechResponse>> >>)
        response == buildResponseHelper_(JSON_stringify(CurrentDialogState(self)),
                                         Bool(FALSE), Null, finalResponse)
    IN  IF ~Truthy(textToSpeech)
        THEN Ok(handleError_(self, "Invalid speech response"), Null)
        ELSE doResponse_(self, response, RESPONSE_CODE_OK)

\* tell sending through the transport itself instead of through doResponse_
tell_sendsDirectly(self, textToSpeech) ==
    LET speechResponse == IF Truthy(isSsml_(self, textToSpeech))
                          THEN Obj(<< <<"ssml", textToSpeech>> >>)
                          ELSE Obj(<< <<"textToSpeech", textToSpeech>> >>)
        finalResponse == Obj(<< <<"speechResponse", speechResponse>> >>)
        response == buildResponseHelper_(Null, Bool(FALSE), Null, finalResponse)
    IN  IF ~Truthy(textToSpeech)
        THEN Ok(handleError_(self, "Invalid speech response"), Null)
        ELSE Ok([self EXCEPT !.sent = Append(@, [code |-> RESPONSE_CODE_OK, body |-> response]),
                             !.responded_ = TRUE],
                response)

tell(self, textToSpeech) ==
    LET speechResponse == IF Truthy(isSsml_(self, textToSpeech))
                          THEN Obj(<< <<"ssml", textToSpeech>> >>)
                          ELSE Obj(<< <<"textToSpeech", textToSpeech>> >>)
        finalResponse == Obj(<< <<"speechResponse", speechResponse>> >>)
        response == buildResponseHelper_(Null, Bool(FALSE), Null, finalResponse)
    IN  IF ~Truthy(textToSpeech)
        THEN Ok(handleError_(self, "Invalid speech response"), Null)
        ELSE doResponse_(self, response, RESPONSE_CODE_OK)

\* Object.assign(target, source)
RECURSIVE ObjectAssign(_, _)
ObjectAssign(target, props) ==
    IF props = <<>> THEN target
    ELSE ObjectAssign(SetProp(target, Head(props)[1], Head(props)[2]), Tail(props))

\* the permission request nesting the spec under the legacy field in both
\* dialects, beside the current dialect's field
fulfillPermissionsRequest_bothFields(self, permissionsSpec, dialogState) ==
    LET e0 == Obj(<< <<"intent", StandardIntentsPERMISSION>> >>)
        e1 == IF isNotApiVersionOne_(self)
              THEN SetProp(e0, "inputValueData",
                      ObjectAssign(Obj(<< <<ANY_TYPE_PROPERTY_, InputValueDataTypesPERMISSION>> >>),
                                   permissionsSpec.props))
              ELSE e0
        expectedIntent == SetProp(e1, "inputValueSpec",
                                  Obj(<< <<"permissionValueSpec", permissionsSpec>> >>))
        built == buildInputPrompt(self, Bool(FALSE), Str("PLACEHOLDER_FOR_PERMISSION"), Undefined)
        state == IF ~Truthy(dialogState) THEN CurrentDialogState(built.self) ELSE dialogState
    IN  buildAskHelper_(built.self, built.ret, Arr(<<expectedIntent>>), state)

fulfillPermissionsRequest_(self, permissionsSpec, dialogState) ==
    LET e0 == Obj(<< <<"intent", StandardIntentsPERMISSION>> >>)
        expectedIntent ==
            IF isNotApiVersionOne_(self)
            THEN SetProp(e0, "inputValueData",
                    ObjectAssign(Obj(<< <<ANY_TYPE_PROPERTY_, InputValueDataTypesPERMISSION>> >>),
                                 permissionsSpec.props))
            ELSE SetProp(e0, "inputValueSpec",
                    Obj(<< <<"permissionValueSpec", permissionsSpec>> >>))
        built == buildInputPrompt(self, Bool(FALSE), Str("PLACEHOLDER_FOR_PERMISSION"), Undefined)
        state == IF ~Truthy(dialogState) THEN CurrentDialogState(built.self) ELSE dialogState
    IN  buildAskHelper_(built.self, built.ret, Arr(<<expectedIntent>>), state)

----------------------------------------------------------------------------
(* The requests, options and arguments of the model *)

PlainText == Str("Say a number")
MarkupText == Str("<speak>Say a number</speak>")

\* an object literal without the properties that are not given
Literal(pairs) == Obj(SelectSeq(pairs, LAMBDA p : p[2] # Undefined))

TextArgument == Obj(<< <<"name", Str("city")>>, <<"textValue", Str("Paris")>> >>)
StructuredArgument == Obj(<< <<"name", Str("place")>>, <<"rawText", Str("here")>> >>)
FullArguments == Arr(<<TextArgument, StructuredArgument>>)
FullRawInputs == Arr(<<Obj(<< <<"query", Str("hello")>> >>)>>)

Input(intent, rawInputs, arguments) ==
    Literal(<< <<"intent", intent>>, <<"rawInputs", rawInputs>>, <<"arguments", arguments>> >>)
FullInputs == Arr(<<Input(Str("MAIN"), FullRawInputs, FullArguments)>>)
FullUser == Obj(<< <<"userId", Str("u1")>>, <<"accessToken", Str("tok")>> >>)

Conversation(type, id, token) ==
    Literal(<< <<"type", type>>, <<"conversationId", id>>, <<"conversationToken", token>> >>)
Body(conversation, inputs, user) ==
    Literal(<< <<"conversation", conversation>>, <<"inputs", inputs>>, <<"user", user>> >>)

\* conversation.type: absent, the legacy dialect's NEW (1) and ACTIVE (2), the
\* current dialect's NEW
ConversationTypes == {Undefined, Num(1), Num(2), Str("NEW")}

StateValues == {Str("AWAIT_NUM"), StateObj("CONFIRM")}
DataValues == {Obj(<<>>),
               Obj(<< <<"count", Num(3)>>, <<"seen", Arr(<<Str("x"), Null>>)>> >>)}

MalformedToken == JsonText(<<P("{"), S("state")>>)
NullToken == JsonText(<<L("null")>>)
ValidToken == JSON_stringify(Obj(<< <<"state", Str("AWAIT_NUM")>>, <<"data", Obj(<<>>)>> >>))

\* options.sessionStarted: not given, a function, a truthy and a falsy non-function
SessionStartedValues == {Undefined, Fn, Str("onStart"), Num(0)}

\* request bodies: every conversation type, every kind of token, and the
\* partial bodies, each with one part missing or empty
ConversationBodies ==
    {Body(Conversation(ty, Str("c1"), Undefined), FullInputs, FullUser) : ty \in ConversationTypes}
TokenBodies ==
    {Body(Conversation(Num(2), Str("c1"), tok), FullInputs, FullUser) :
        tok \in {MalformedToken, NullToken, ValidToken}}
PartialBodies ==
    {Body(Undefined, FullInputs, FullUser),
     Body(Conversation(Num(2), Undefined, Undefined), FullInputs, FullUser),
     Body(Conversation(Num(2), Str("c1"), Undefined), FullInputs, Undefined),
     Body(Conversation(Num(2), Str("c1"), Undefined), Undefined, FullUser),
     Body(Conversation(Num(2), Str("c1"), Undefined), Arr(<<>>), FullUser)}
    \cup {Body(Conversation(Num(2), Str("c1"), Undefined), Arr(<<in>>), FullUser) :
            in \in {Input(Undefined, FullRawInputs, FullArguments),
                    Input(Str("MAIN"), Undefined, FullArguments),
                    Input(Str("MAIN"), Arr(<<>>), FullArguments),
                    Input(Str("MAIN"), Arr(<<Obj(<<>>)>>), FullArguments),
                    Input(Str("MAIN"), FullRawInputs, Undefined),
                    Input(Str("MAIN"), FullRawInputs, Arr(<<>>))}}

\* [body, sessionStarted, notApiVersionOne]
Requests ==
    (ConversationBodies \X SessionStartedValues \X BOOLEAN)
    \cup ((TokenBodies \cup PartialBodies) \X {Undefined} \X {TRUE})

\* lists of no-input texts of every length up to MaxNoInputs
NoInputTexts(n) == Arr([i \in 1..n |-> IF i = 2 THEN MarkupText ELSE PlainText])
NoInputLists == {Undefined} \cup {NoInputTexts(n) : n \in 0..MaxNoInputs}

\* what the callback passes to ask as its prompt: nothing, a raw string, or a
\* prompt prebuilt with buildInputPrompt
RawPrompts == {Undefined, PlainText, MarkupText}
PrebuiltPromptArgs ==
    {<<Bool(FALSE), MarkupText, Undefined>>,
     <<Bool(TRUE), PlainText, Undefined>>,
     <<Bool(FALSE), PlainText, NoInputTexts(2)>>}

\* what the callback passes as dialogState: nothing, an object, an array
DialogStates == {Undefined, Obj(<< <<"step", Str("two")>> >>), Arr(<<Str("a")>>)}

TellTexts == {Str(""), PlainText, MarkupText}

PermissionsSpec ==
    Obj(<< <<"optContext", Str("To get you a ride")>>,
           <<"permissions", Arr(<<Str("NAME")>>)>> >>)

ArgumentNames == {Str(""), Str("city"), Str("City"), Str("place")}

----------------------------------------------------------------------------
(* The state machine of one conversation: a turn is one request handled by *)
(* one instance; the next turn's request carries the token the turn sent   *)

Op(op, args, built) == [op |-> op, args |-> args, built |-> built]

\* the instance at the start of an operation: the error sink's log of the
\* operation in progress is empty
Begin(self) == [self EXCEPT !.errors = <<>>]

\* the position after an operation with outcome out
After(out) ==
    IF out.thrown THEN "Crashed"
    ELSE IF out.self.responded_ THEN "Responded"
    ELSE "AwaitingCallback"

\* the operation op(args) ran to outcome out
Do(out, op, args, built) ==
    /\ adapter' = out.self
    /\ ret' = out.ret
    /\ thrown' = out.thrown
    /\ lastOp' = Op(op, args, built)
    /\ pc' = After(out)
    /\ UNCHANGED <<turns, heap>>

InitWith(requests) ==
    /\ \E req \in requests : adapter = NewInstance(req[1], req[2], req[3])
    /\ pc = "Initializing"
    /\ ret = Undefined
    /\ thrown = FALSE
    /\ lastOp = Op("request", <<>>, <<>>)
    /\ encoded = <<>>
    /\ carried = <<>>
    /\ turns = <<>>
    /\ heap = <<>>

Init == InitWith(Requests)

\* new ActionsSdkAssistant(options)
Construct ==
    /\ pc = "Initializing"
    /\ Do(Constructor(Begin(adapter)), "constructor", <<>>, <<>>)
    /\ UNCHANGED <<encoded, carried>>

\* the token decode at the start of the turn, before the callback runs
ExtractData ==
    /\ pc = "AwaitingCallback"
    /\ lastOp.op = "constructor"
    /\ Do(extractData_(Begin(adapter)), "extractData_", <<>>, <<>>)
    /\ UNCHANGED <<encoded, carried>>

\* the callback assigns the instance's public fields state and data
SetState ==
    /\ pc = "AwaitingCallback"
    /\ \E s \in StateValues :
          Do(Ok([Begin(adapter) EXCEPT !.state = s], Undefined), "state=", <<s>>, <<>>)
    /\ UNCHANGED <<encoded, carried>>

SetData ==
    /\ pc = "AwaitingCallback"
    /\ \E d \in DataValues :
          Do(Ok([Begin(adapter) EXCEPT !.data = d], Undefined), "data=", <<d>>, <<>>)
    /\ UNCHANGED <<encoded, carried>>

GetRawInput ==
    /\ pc = "AwaitingCallback"
    /\ Do(getRawInput(Begin(adapter)), "getRawInput", <<>>, <<>>)
    /\ UNCHANGED <<encoded, carried>>

GetIntent ==
    /\ pc = "AwaitingCallback"
    /\ Do(getIntent(Begin(adapter)), "getIntent", <<>>, <<>>)
    /\ UNCHANGED <<encoded, carried>>

GetArgument ==
    /\ pc = "AwaitingCallback"
    /\ \E name \in ArgumentNames :
          Do(getArgument(Begin(adapter), name), "getArgument", <<name>>, <<>>)
    /\ UNCHANGED <<encoded, carried>>

GetUser ==
    /\ pc = "AwaitingCallback"
    /\ Do(getUser(Begin(adapter)), "getUser", <<>>, <<>>)
    /\ UNCHANGED <<encoded, carried>>

GetConversationId ==
    /\ pc = "AwaitingCallback"
    /\ Do(getConversationId(Begin(adapter)), "getConversationId", <<>>, <<>>)
    /\ UNCHANGED <<encoded, carried>>

GetDialogState ==
    /\ pc = "AwaitingCallback"
    /\ Do(getDialogState(Begin(adapter)), "getDialogState", <<>>, <<>>)
    /\ UNCHANGED <<encoded, carried>>

BuildInputPrompt ==
    /\ pc = "AwaitingCallback"
    /\ \E isSsml \in {Bool(FALSE), Bool(TRUE)}, text \in {Str(""), PlainText},
          noInputs \in NoInputLists :
          Do(buildInputPrompt(Begin(adapter), isSsml, text, noInputs),
             "buildInputPrompt", <<isSsml, text, noInputs>>, <<>>)
    /\ UNCHANGED <<encoded, carried>>

\* what an ask that answered the turn encoded from memory
Encoded(out, dialogState) ==
    IF Len(out.self.sent) > Len(adapter.sent) /\ ~Truthy(dialogState)
    THEN <<[state |-> adapter.state, data |-> adapter.data]>>
    ELSE encoded

\* assistant.ask(prompt, dialogState) with a raw string (or nothing) as prompt
AskRaw ==
    /\ pc \in {"AwaitingCallback", "Responded"}
    /\ \E prompt \in RawPrompts, dialogState \in DialogStates :
          LET out == ask(Begin(adapter), prompt, dialogState)
          IN  /\ Do(out, "ask", <<prompt, dialogState>>, <<>>)
              /\ encoded' = Encoded(out, dialogState)
    /\ UNCHANGED carried

\* assistant.ask(assistant.buildInputPrompt(isSsml, text, noInputs), dialogState)
AskPrebuilt ==
    /\ pc \in {"AwaitingCallback", "Responded"}
    /\ \E b \in PrebuiltPromptArgs, dialogState \in {Undefined} :
          LET built == buildInputPrompt(Begin(adapter), b[1], b[2], b[3])
              out == ask(built.self, built.ret, dialogState)
          IN  /\ Do(out, "ask", <<built.ret, dialogState>>, b)
              /\ encoded' = Encoded(out, dialogState)
    /\ UNCHANGED carried

Tell ==
    /\ pc \in {"AwaitingCallback", "Responded"}
    /\ \E text \in TellTexts : Do(tell(Begin(adapter), text), "tell", <<text>>, <<>>)
    /\ UNCHANGED <<encoded, carried>>

\* the permission request
AskForPermission ==
    /\ pc \in {"AwaitingCallback", "Responded"}
    /\ \E dialogState \in DialogStates :
          Do(fulfillPermissionsRequest_(Begin(adapter), PermissionsSpec, dialogState),
             "fulfillPermissionsRequest_", <<PermissionsSpec, dialogState>>, <<>>)
    /\ UNCHANGED <<encoded, carried>>

\* the conversation.type of a continuing conversation in the instance's dialect
ConversationStagesACTIVE(self) == IF isNotApiVersionOne_(self) THEN Str("ACTIVE") ELSE Num(2)

\* the platform hands the token of an ask response back verbatim in the next
\* turn's request, which a new instance handles
NextTurn ==
    /\ pc = "Responded"
    /\ Get(adapter.sent[1].body, "expectUserResponse") = Bool(TRUE)
    /\ adapter' = NewInstance(
            Body(Conversation(ConversationStagesACTIVE(adapter), Str("c1"),
                              Get(adapter.sent[1].body, "conversationToken")),
                 FullInputs, FullUser),
            adapter.sessionStarted_, adapter.notApiVersionOne)
    /\ pc' = "Initializing"
    /\ ret' = Undefined
    /\ thrown' = FALSE
    /\ lastOp' = Op("request", <<>>, <<>>)
    /\ carried' = encoded
    /\ encoded' = <<>>
    /\ UNCHANGED <<turns, heap>>

\* one turn: the constructor, the token decode, the callback's reads, writes
\* and answers
Next ==
    \/ Construct
    \/ ExtractData
    \/ SetState
    \/ SetData
    \/ GetRawInput
    \/ GetIntent
    \/ GetArgument
    \/ GetUser
    \/ GetConversationId
    \/ GetDialogState
    \/ BuildInputPrompt
    \/ AskRaw
    \/ AskPrebuilt
    \/ Tell
    \/ AskForPermission

Spec == Init /\ [][Next]_vars

\* a conversation over several turns: each turn decodes the token, writes its
\* memory and asks; the next turn's request carries the token sent
ConversationNext ==
    \/ Construct
    \/ ExtractData
    \/ SetState
    \/ SetData
    \/ AskRaw
    \/ AskPrebuilt
    \/ NextTurn

ConversationRequests == (ConversationBodies \cup TokenBodies) \X {Undefined} \X BOOLEAN

SpecConversation == InitWith(ConversationRequests) /\ [][ConversationNext]_vars

----------------------------------------------------------------------------
(* Concurrent turns: each turn has its own instance and its own parsed     *)
(* body; an instance's data field refers to an object of the heap, so that *)
(* two instances interfere exactly when their fields refer to one object   *)

MaxTurnSteps == 4

TurnIds == {1, 2}

\* a reference to the object at address a of the heap
Ref(a) == [t |-> "ref", addr |-> a]

\* the object literal / JSON.parse result sharing one object among equal values
NewObject_interned(hp, value) ==
    IF \E a \in 1..Len(hp) : hp[a] = value
    THEN [heap |-> hp, ref |-> Ref(CHOOSE a \in 1..Len(hp) : hp[a] = value)]
    ELSE [heap |-> Append(hp, value), ref |-> Ref(Len(hp) + 1)]

\* this.data = {} and this.data = json.data: the field refers to an object
\* that did not exist before
NewObject(hp, value) == [heap |-> Append(hp, value), ref |-> Ref(Len(hp) + 1)]

\* the instance with the object its data field refers to in place of the reference
Deref(hp, self) == [self EXCEPT !.data = hp[self.data.addr]]

\* a token with a state and non-empty data
CountedToken ==
    JSON_stringify(Obj(<< <<"state", Str("CONFIRM")>>,
                          <<"data", Obj(<< <<"count", Num(3)>> >>)>> >>))

ConcurrentBodies ==
    {Body(Conversation(Num(2), Str("c1"), tok), FullInputs, FullUser) :
        tok \in {Undefined, CountedToken, MalformedToken}}

Step(op, arg) == [op |-> op, arg |-> arg]

\* one step of a turn that runs alone on its instance
Apply(self, step) ==
    CASE step.op = "constructor" -> Constructor(Begin(self))
      [] step.op = "extractData_" -> extractData_(Begin(self))
      [] step.op = "state=" -> Ok([Begin(self) EXCEPT !.state = step.arg], Undefined)
      [] step.op = "data=" -> Ok([Begin(self) EXCEPT !.data = step.arg], Undefined)
      [] step.op = "data.count=" ->
            Ok([Begin(self) EXCEPT !.data = SetProp(@, "count", step.arg)], Undefined)
      [] step.op = "ask" -> ask(Begin(self), step.arg, Undefined)
      [] step.op = "tell" -> tell(Begin(self), step.arg)

\* the instance after the turn ran the steps of log alone
RECURSIVE Replay(_, _)
Replay(self, log) ==
    IF log = <<>> THEN self ELSE Replay(Apply(self, Head(log)).self, Tail(log))

\* the turn's instance as the base constructor leaves it, data by value
FreshInstance(i) ==
    NewInstance(turns[i].adapter.body_, turns[i].adapter.sessionStarted_,
                turns[i].adapter.notApiVersionOne)

\* no turn is being handled one at a time
Idle ==
    /\ pc = "Initializing"
    /\ adapter = Undefined
    /\ ret = Undefined
    /\ thrown = FALSE
    /\ lastOp = Op("request", <<>>, <<>>)
    /\ encoded = <<>>
    /\ carried = <<>>

ConcurrentInit ==
    /\ Idle
    /\ \E b1 \in ConcurrentBodies, b2 \in ConcurrentBodies :
          LET o1 == NewObject(<<>>, Obj(<<>>))
              o2 == NewObject(o1.heap, Obj(<<>>))
              turn(b, o) == [adapter |-> [NewInstance(b, Undefined, TRUE) EXCEPT !.data = o.ref],
                             pc |-> "Initializing", log |-> <<>>]
          IN  /\ turns = <<turn(b1, o1), turn(b2, o2)>>
              /\ heap = o2.heap

\* turn i took step: kind says whether the step only reads the data object
\* ("reads"), makes the data field refer to a new object ("assigns") or writes
\* a property of the data object in place ("writes")
TurnStep(i, step, kind) ==
    LET t == turns[i]
        out == Apply(Deref(heap, t.adapter), step)
        o == NewObject(heap, out.self.data)
        assigned == kind = "assigns" /\ ~out.thrown
        self == IF kind = "writes" THEN Begin(t.adapter)
                ELSE [out.self EXCEPT !.data = IF assigned THEN o.ref ELSE t.adapter.data]
    IN  /\ Len(t.log) < MaxTurnSteps
        /\ turns' = [turns EXCEPT ![i] = [adapter |-> self, pc |-> After(out),
                                           log |-> Append(t.log, step)]]
        /\ heap' = IF assigned THEN o.heap
                   ELSE IF kind = "writes"
                   THEN [heap EXCEPT ![t.adapter.data.addr] = SetProp(@, "count", step.arg)]
                   ELSE heap
        /\ UNCHANGED <<pc, adapter, ret, thrown, lastOp, encoded, carried>>

TurnConstruct(i) ==
    /\ turns[i].pc = "Initializing"
    /\ TurnStep(i, Step("constructor", Undefined), "reads")

TurnExtractData(i) ==
    /\ turns[i].pc = "AwaitingCallback"
    /\ Len(turns[i].log) = 1
    /\ TurnStep(i, Step("extractData_", Undefined), "assigns")

\* the callback of turn i runs: the instance is constructed and has decoded
\* the token of its request
InCallback(i) == turns[i].pc = "AwaitingCallback" /\ Len(turns[i].log) >= 2

\* the callback: assistant.state = s
TurnSetState(i) ==
    /\ InCallback(i)
    /\ \E s \in StateValues : TurnStep(i, Step("state=", s), "reads")

\* the callback: assistant.data = {}
TurnSetData(i) ==
    /\ InCallback(i)
    /\ TurnStep(i, Step("data=", Obj(<<>>)), "assigns")

\* the callback: assistant.data.count = i
TurnMutateData(i) ==
    /\ InCallback(i)
    /\ heap[turns[i].adapter.data.addr].t = "object"
    /\ TurnStep(i, Step("data.count=", Num(i)), "writes")

TurnAsk(i) ==
    /\ InCallback(i)
    /\ TurnStep(i, Step("ask", PlainText), "reads")

TurnTell(i) ==
    /\ InCallback(i)
    /\ TurnStep(i, Step("tell", PlainText), "reads")

\* the steps of the two turns in any order
ConcurrentNext ==
    \/ \E i \in TurnIds : TurnConstruct(i)
    \/ \E i \in TurnIds : TurnExtractData(i)
    \/ \E i \in TurnIds : TurnSetState(i)
    \/ \E i \in TurnIds : TurnSetData(i)
    \/ \E i \in TurnIds : TurnMutateData(i)
    \/ \E i \in TurnIds : TurnAsk(i)
    \/ \E i \in TurnIds : TurnTell(i)

SpecConcurrent == ConcurrentInit /\ [][ConcurrentNext]_vars

----------------------------------------------------------------------------
(* Properties *)

\* the responses handed to the transport
Sent == adapter.sent

\* the last operation handed the response it returned to the transport
Answered == Len(Sent) > 0 /\ ret = Sent[Len(Sent)].body

\* the field a response leaves out or carries
Present(body, field) == HasProp(body, field)

\* C1: every response handed to the transport has finalResponse only when
\* expectUserResponse is false, expectedInputs only when it is true, never
\* both, and a response sent by tell carries no conversationToken.
C1_ResponseShape ==
    /\ \A i \in 1..Len(Sent) :
          LET body == Sent[i].body IN
          /\ Present(body, "finalResponse") => Get(body, "expectUserResponse") = Bool(FALSE)
          /\ Present(body, "expectedInputs") => Get(body, "expectUserResponse") = Bool(TRUE)
          /\ ~(Present(body, "finalResponse") /\ Present(body, "expectedInputs"))
    /\ (lastOp.op = "tell" /\ Answered) => ~Present(ret, "conversationToken")

\* a tell answered the turn while the instance held a state and data
C1_Witness ==
    /\ lastOp.op = "tell"
    /\ Answered
    /\ Present(ret, "finalResponse")
    /\ adapter.state # Undefined

\* C2: when a turn asked with no explicit dialogState while holding state S and
\* data D, and the next turn received the emitted token, then after that
\* turn's token decode the state is the name of S and the data is D.
C2_RoundTrip ==
    (lastOp.op = "extractData_" /\ carried # <<>>) =>
        /\ ~thrown
        /\ adapter.state = (IF carried[1].state.t = "State"
                            THEN Str(carried[1].state.name) ELSE carried[1].state)
        /\ adapter.data = carried[1].data

\* the second turn decoded a token that the first encoded from a named-state
\* object and a non-empty data mapping
C2_Witness ==
    /\ lastOp.op = "extractData_"
    /\ carried # <<>>
    /\ carried[1].state.t = "State"
    /\ carried[1].data # Obj(<<>>)
    /\ adapter.data = carried[1].data

InvalidAsk(o) == o.op = "ask" /\ (~Truthy(o.args[1]) \/ o.args[2].t = "array")
InvalidTell(o) == o.op = "tell" /\ ~Truthy(o.args[1])
ValidAnswer(o) ==
    \/ o.op = "ask" /\ Truthy(o.args[1]) /\ o.args[2].t # "array"
    \/ o.op = "tell" /\ Truthy(o.args[1])

\* the error an invalid call reports
ValidationError(o) ==
    IF o.op = "tell" THEN "Invalid speech response"
    ELSE IF ~Truthy(o.args[1]) THEN "Invalid input prompt"
    ELSE "Invalid dialog state"

\* C4: an ask with a falsy prompt or an array dialogState, or a tell with falsy
\* text, reports the specific validation error, returns null, hands nothing to
\* the transport and leaves state, data and position unchanged; a valid ask
\* or tell that follows it in the same turn sends its response.
C4_InvalidThenRetry ==
    [][ /\ (InvalidAsk(lastOp') \/ InvalidTell(lastOp')) =>
            /\ ret' = Null
            /\ ~thrown'
            /\ adapter'.errors = <<ValidationError(lastOp')>>
            /\ adapter'.sent = adapter.sent
            /\ adapter'.state = adapter.state
            /\ adapter'.data = adapter.data
            /\ pc' = pc
        /\ ( /\ pc = "AwaitingCallback"
             /\ (InvalidAsk(lastOp) \/ InvalidTell(lastOp))
             /\ ValidAnswer(lastOp') ) =>
            /\ pc' = "Responded"
            /\ adapter'.sent = <<[code |-> 200, body |-> ret']>>
      ]_vars

\* an ask with an array dialogState was refused and the turn is still open
C4_Witness ==
    /\ pc = "AwaitingCallback"
    /\ lastOp.op = "ask"
    /\ Truthy(lastOp.args[1])
    /\ lastOp.args[2].t = "array"
    /\ adapter.errors = <<"Invalid dialog state">>
    /\ Sent = <<>>

\* the inbound dialog-state token
InboundToken == Get(Get(adapter.body_, "conversation"), "conversationToken")

\* C5: decoding the inbound token never raises: with the token absent or not
\* valid JSON, the state/data extraction ends with data the empty mapping and
\* state undefined, getDialogState returns the empty mapping, and an absent
\* token reports no error.
C5_DecodeNeverRaises ==
    (InboundToken = Undefined \/ InboundToken = MalformedToken) =>
        /\ (lastOp.op = "extractData_" =>
                ~thrown /\ adapter.data = Obj(<<>>) /\ adapter.state = Undefined)
        /\ (lastOp.op = "getDialogState" => ~thrown /\ ret = Obj(<<>>))
        /\ (lastOp.op \in {"extractData_", "getDialogState"} /\ InboundToken = Undefined
                => adapter.errors = <<>>)

TopInput == At(Get(adapter.body_, "inputs"), 0)
InputsMissing ==
    \/ Get(adapter.body_, "inputs") = Undefined
    \/ Get(adapter.body_, "inputs") = Arr(<<>>)

\* the part of the request body the extractor op reads is missing
PartMissing(op) ==
    CASE op = "getRawInput" ->
            \/ InputsMissing
            \/ Get(TopInput, "rawInputs") \in {Undefined, Arr(<<>>)}
            \/ Get(At(Get(TopInput, "rawInputs"), 0), "query") = Undefined
      [] op = "getIntent" -> InputsMissing \/ Get(TopInput, "intent") = Undefined
      [] op = "getArgument" -> InputsMissing \/ Get(TopInput, "arguments") = Undefined
      [] op = "getUser" -> Get(adapter.body_, "user") = Undefined
      [] op = "getConversationId" ->
            Get(Get(adapter.body_, "conversation"), "conversationId") = Undefined
      [] OTHER -> FALSE

\* C6: on a request body with the part it reads missing, each extractor
\* returns null, reports exactly one error and does not raise.
C6_ExtractorsDegrade ==
    (PartMissing(lastOp.op) /\ (lastOp.op = "getArgument" => Truthy(lastOp.args[1]))) =>
        /\ ~thrown
        /\ ret = Null
        /\ Len(adapter.errors) = 1

\* a session-start value was supplied and is not a function
NotInvocable == Truthy(adapter.sessionStarted_) /\ adapter.sessionStarted_ # Fn

\* C7: with a session-start value that is not invocable the constructor
\* reports the configuration error, and no later ask, tell or permission
\* request of the instance hands a response to the transport.
C7_TerminalError ==
    NotInvocable =>
        /\ (lastOp.op = "constructor" =>
                adapter.errors = <<"options.sessionStarted must be a Function">>)
        /\ Sent = <<>>

\* the request opens a new conversation and the session-start value is a function
SessionStarts ==
    /\ Get(Get(adapter.body_, "conversation"), "type")
            = (IF adapter.notApiVersionOne THEN Str("NEW") ELSE Num(1))
    /\ adapter.sessionStarted_ = Fn

\* C8: the session-start callback is invoked exactly once, by the constructor
\* and before any response is sent, when the request opens a new conversation
\* and the session-start value is a function, and never otherwise.
C8_SessionStartedOnce ==
    /\ pc = "Initializing" => adapter.sessionStartedCalls = 0 /\ Sent = <<>>
    /\ lastOp.op = "constructor" => Sent = <<>>
    /\ pc # "Initializing" =>
            adapter.sessionStartedCalls = (IF SessionStarts THEN 1 ELSE 0)

\* the callback was invoked and the turn was then answered by an ask
C8_Witness ==
    /\ adapter.sessionStartedCalls = 1
    /\ lastOp.op = "ask"
    /\ Answered

NoInputCount(noInputs) == IF noInputs = Undefined THEN 0 ELSE Len(noInputs.elems)

\* C9: buildInputPrompt with more than 3 no-input texts reports "Invalid
\* number of no inputs" and returns null; with at most 3, or no list, it
\* returns a prompt with as many noInputPrompts as texts given and one
\* initialPrompt, none when the initial text is falsy, and reports no error.
C9_InputPrompt ==
    lastOp.op = "buildInputPrompt" =>
        LET n == NoInputCount(lastOp.args[3]) IN
        IF n > 3
        THEN ret = Null /\ adapter.errors = <<"Invalid number of no inputs">>
        ELSE /\ ret.t = "object"
             /\ Len(Get(ret, "noInputPrompts").elems) = n
             /\ Len(Get(ret, "initialPrompts").elems)
                    = (IF Truthy(lastOp.args[2]) THEN 1 ELSE 0)
             /\ adapter.errors = <<>>

\* a prompt was built from exactly 3 no-input texts and a falsy initial text
C9_Witness ==
    /\ lastOp.op = "buildInputPrompt"
    /\ NoInputCount(lastOp.args[3]) = 3
    /\ ~Truthy(lastOp.args[2])
    /\ ret.t = "object"
    /\ Len(Get(ret, "noInputPrompts").elems) = 3

\* a text that contains markup delimiters
HasMarkup(text) == text = MarkupText

\* the prompt (or speech response) renders its text into the field that SSML
\* detection names
RenderedAsDetected(p) ==
    /\ Present(p, "ssml") => HasMarkup(Get(p, "ssml"))
    /\ Present(p, "textToSpeech") => ~HasMarkup(Get(p, "textToSpeech"))

\* the prompts of an ask response
PromptsOf(body) ==
    LET inputPrompt == Get(At(Get(body, "expectedInputs"), 0), "inputPrompt")
    IN  Get(inputPrompt, "initialPrompts").elems \o Get(inputPrompt, "noInputPrompts").elems

\* C10 as stated: in every response sent by tell and in every prompt of every
\* response sent by ask, a text with markup is in the SSML field and a text
\* without it in the plain-text field.
C10_Original ==
    \A i \in 1..Len(Sent) :
        LET body == Sent[i].body IN
        IF Present(body, "finalResponse")
        THEN RenderedAsDetected(Get(Get(body, "finalResponse"), "speechResponse"))
        ELSE \A k \in 1..Len(PromptsOf(body)) : RenderedAsDetected(PromptsOf(body)[k])

\* C10 amended: tell, and ask given a raw string, render the text into the
\* field that SSML detection names; ask given a prompt prebuilt with
\* buildInputPrompt sends every text of it in the field that the isSsml flag
\* passed to buildInputPrompt names, whatever the text contains.
C10_Amended ==
    Answered =>
        /\ lastOp.op = "tell" =>
                RenderedAsDetected(Get(Get(ret, "finalResponse"), "speechResponse"))
        /\ (lastOp.op = "ask" /\ lastOp.built = <<>>) =>
                /\ Len(PromptsOf(ret)) = 1
                /\ \A k \in 1..Len(PromptsOf(ret)) : RenderedAsDetected(PromptsOf(ret)[k])
        /\ (lastOp.op = "ask" /\ lastOp.built # <<>>) =>
                \A k \in 1..Len(PromptsOf(ret)) :
                    Present(PromptsOf(ret)[k], "ssml") <=> Truthy(lastOp.built[1])

\* an ask given a prompt prebuilt as plain text from a text with markup sent it
\* in the plain-text field
C10_Witness ==
    /\ Answered
    /\ lastOp.op = "ask"
    /\ lastOp.built # <<>>
    /\ \E k \in 1..Len(PromptsOf(ret)) : HasMarkup(Get(PromptsOf(ret)[k], "textToSpeech"))

\* the arguments list of the top input
ArgumentsList == Get(TopInput, "arguments")

\* getArgument looked up a non-empty name on a top input with an arguments list
LookedUp ==
    /\ lastOp.op = "getArgument"
    /\ Truthy(lastOp.args[1])
    /\ ~InputsMissing
    /\ ArgumentsList # Undefined

\* the arguments of the list named exactly name
Named(name) ==
    {i \in 1..Len(ArgumentsList.elems) : Get(ArgumentsList.elems[i], "name") = name}

\* a present name with a plain text value returns that string verbatim, under
\* both dialects
TextValueVerbatim ==
    (LookedUp /\ Named(lastOp.args[1]) # {}) =>
        LET argument == ArgumentsList.elems[CHOOSE i \in Named(lastOp.args[1]) :
                                                \A j \in Named(lastOp.args[1]) : i <= j]
        IN  Truthy(Get(argument, "textValue")) =>
                /\ ~thrown
                /\ ret = Get(argument, "textValue")
                /\ adapter.errors = <<>>

PossibleIntentsOf(body) == Get(At(Get(body, "expectedInputs"), 0), "possibleIntents")

\* the expected intent carries the permission spec in the current dialect's
\* field only: the type discriminator and every field of the spec
NestedAsCurrent(intent, permissionsSpec) ==
    /\ Present(intent, "inputValueData")
    /\ ~Present(intent, "inputValueSpec")
    /\ Get(Get(intent, "inputValueData"), ANY_TYPE_PROPERTY_) = InputValueDataTypesPERMISSION
    /\ \A i \in 1..Len(permissionsSpec.props) :
          Get(Get(intent, "inputValueData"), permissionsSpec.props[i][1])
              = permissionsSpec.props[i][2]

\* the expected intent carries the permission spec in the legacy dialect's
\* field only
NestedAsLegacy(intent, permissionsSpec) ==
    /\ Present(intent, "inputValueSpec")
    /\ ~Present(intent, "inputValueData")
    /\ Get(Get(intent, "inputValueSpec"), "permissionValueSpec") = permissionsSpec

\* C12: a permission request sends an ask-shaped response (expectUserResponse
\* true, no finalResponse) whose single expected intent is the built-in
\* permission intent and nests the permission spec under exactly one dialect
\* field: inputValueData with the type discriminator and no inputValueSpec
\* under the current dialect, inputValueSpec.permissionValueSpec and no
\* inputValueData under the legacy dialect.
C12_PermissionRequest ==
    lastOp.op = "fulfillPermissionsRequest_" =>
        /\ ~thrown
        /\ Len(Sent) = 1
        /\ Sent[1].code = RESPONSE_CODE_OK
        /\ ret # Undefined =>
              /\ Answered
              /\ Get(ret, "expectUserResponse") = Bool(TRUE)
              /\ ~Present(ret, "finalResponse")
              /\ Len(Get(ret, "expectedInputs").elems) = 1
              /\ Len(PossibleIntentsOf(ret).elems) = 1
              /\ LET intent == At(PossibleIntentsOf(ret), 0) IN
                    /\ Get(intent, "intent") = StandardIntentsPERMISSION
                    /\ IF adapter.notApiVersionOne
                       THEN NestedAsCurrent(intent, lastOp.args[1])
                       ELSE NestedAsLegacy(intent, lastOp.args[1])

\* a permission request answered the turn under the legacy dialect
C12_Witness ==
    /\ lastOp.op = "fulfillPermissionsRequest_"
    /\ Answered
    /\ ~adapter.notApiVersionOne
    /\ NestedAsLegacy(At(PossibleIntentsOf(ret), 0), PermissionsSpec)

\* a permission request answered the turn under the current dialect
C12_WitnessCurrent ==
    /\ lastOp.op = "fulfillPermissionsRequest_"
    /\ Answered
    /\ adapter.notApiVersionOne
    /\ NestedAsCurrent(At(PossibleIntentsOf(ret), 0), PermissionsSpec)

\* ask (given a prompt) or the permission request was passed an array as
\* dialogState
ArrayAsDialogState ==
    /\ lastOp.op \in {"ask", "fulfillPermissionsRequest_"}
    /\ Truthy(lastOp.args[1])
    /\ lastOp.args[2].t = "array"

\* the conversationToken of the response encodes an array
TokenEncodesArray(body) ==
    /\ Present(body, "conversationToken")
    /\ JSON_parse(Get(body, "conversationToken")).ok
    /\ JSON_parse(Get(body, "conversationToken")).val.t = "array"

\* C13: whenever an array is passed as dialogState to ask or to the permission
\* request, the operation reports "Invalid dialog state", returns null, and no
\* response whose conversationToken encodes an array is handed to the
\* transport.
C13_ArrayNeverAccepted ==
    /\ ArrayAsDialogState =>
          /\ ret = Null
          /\ adapter.errors = <<"Invalid dialog state">>
    /\ \A i \in 1..Len(Sent) : ~TokenEncodesArray(Sent[i].body)

\* C14: when two instances handle two turns and their steps are interleaved in
\* any order, each instance (its state, its data, the responses it handed to
\* the transport, the errors it reported) is the same as when the turn runs
\* its steps alone on its own request body.
C14_TurnsIsolated ==
    \A i \in DOMAIN turns :
        Deref(heap, turns[i].adapter) = Replay(FreshInstance(i), turns[i].log)

\* both turns answered with an ask after turn 2 decoded its token between
\* turn 1's decode and turn 1's assignment of new data, and turn 2 wrote its
\* data in place
C14_Witness ==
    /\ DOMAIN turns = TurnIds
    /\ turns[1].pc = "Responded" /\ turns[2].pc = "Responded"
    /\ turns[1].adapter.data = Ref(5)
    /\ turns[2].adapter.data = Ref(4)
    /\ Get(heap[4], "count") = Num(2)
    /\ Get(turns[1].adapter.sent[1].body, "expectUserResponse") = Bool(TRUE)
    /\ Get(turns[2].adapter.sent[1].body, "expectUserResponse") = Bool(TRUE)

====
